---- MODULE Spec2Model ----
(***************************************************************************)
(* Tower-field (Fq12) circuit gadget of plonky2-bn254:                     *)
(* src/src/fields/fq12_target.rs and src/src/utils.rs.                     *)
(*                                                                         *)
(* A base-field gadget (FqTarget) is a symbolic wire expression: a         *)
(* constant, a block of NumLimbs explicit limb wires, or an arithmetic     *)
(* node over other FqTargets.  A tower-field gadget (Fq12Target) is a      *)
(* sequence of NumCoeffs FqTargets.  The builder holds the virtual-wire    *)
(* counter, the registered hint generators and the copy constraints; the   *)
(* partition witness pw maps assigned virtual wires to native values.      *)
(*                                                                         *)
(* Number widths are scaled so that TLC can enumerate them: the BN254      *)
(* base prime becomes Q, a 32-bit limb becomes a LimbBits-bit limb, a u64  *)
(* becomes a U64Bits-bit integer and the Goldilocks order 2^64 - 2^32 + 1  *)
(* becomes 2^3 - 2^2 + 1.                                                  *)
(***************************************************************************)
EXTENDS Integers, Sequences, FiniteSets, TLC

\* ark_bn254::Fq modulus, scaled: a prime q = 3 (mod 4), q = 1 (mod 3) for
\* which u^2 = -1 and w^6 = 9 + u define a field of q^12 elements.
Q == 7
\* coefficients of an Fq12Target
NumCoeffs == 12
\* limbs of an FqTarget
NumLimbs == 8
\* bits of one u32 limb (32), scaled
LimbBits == 2
\* bits of one byte (8), scaled
ByteBits == 1
\* 2^LimbBits
LimbBase == 4
\* bits of a u64 (64), scaled
U64Bits == 3
\* order of the native (Goldilocks) field, scaled
NativeOrder == 5
\* the driver's exponents are 0..MaxExp and the three around the native order
MaxExp == 2

Half == NumCoeffs \div 2

(***************************************************************************)
(* Native base field Fq and the library's tower field Fq12                 *)
(* = Fq2[w] / (w^6 - (9 + u)), Fq2 = Fq[u] / (u^2 + 1).  A native Fq12 is  *)
(* a sequence of Half Fq2 elements <<c0, c1>>, entry i the coefficient of  *)
(* w^(i-1).                                                                *)
(***************************************************************************)
FqAdd(x, y) == (x + y) % Q
FqSub(x, y) == (x - y) % Q
FqNeg(x) == (0 - x) % Q
FqMul(x, y) == (x * y) % Q

Fq2Add(x, y) == <<FqAdd(x[1], y[1]), FqAdd(x[2], y[2])>>
Fq2Mul(x, y) == <<FqSub(FqMul(x[1], y[1]), FqMul(x[2], y[2])),
                  FqAdd(FqMul(x[1], y[2]), FqMul(x[2], y[1]))>>
Fq2Zero == <<0, 0>>
\* the non-residue 9 + u
Xi == <<9 % Q, 1>>

RECURSIVE Fq2Sum(_, _, _)
\* sum of f[i] for i in lo..hi
Fq2Sum(f, lo, hi) == IF lo > hi THEN Fq2Zero ELSE Fq2Add(f[lo], Fq2Sum(f, lo + 1, hi))

\* coefficient k (0-based, 0..2*Half-2) of the polynomial product x(w) * y(w)
PolyCoeff(x, y, k) ==
    LET lo == IF k < Half THEN 0 ELSE k - (Half - 1)
        hi == IF k < Half THEN k ELSE Half - 1
    IN Fq2Sum([i \in lo..hi |-> Fq2Mul(x[i + 1], y[k - i + 1])], lo, hi)

\* coefficient i (0-based) of x(w) * y(w) reduced by w^6 = Xi
ReducedCoeff(x, y, i) ==
    IF i < Half - 1
    THEN Fq2Add(PolyCoeff(x, y, i), Fq2Mul(Xi, PolyCoeff(x, y, i + Half)))
    ELSE PolyCoeff(x, y, i)

\* Fq12 multiplication of the library: x(w) * y(w) reduced by w^6 = Xi
NativeMul(x, y) ==
    <<ReducedCoeff(x, y, 0), ReducedCoeff(x, y, 1), ReducedCoeff(x, y, 2),
      ReducedCoeff(x, y, 3), ReducedCoeff(x, y, 4), ReducedCoeff(x, y, 5)>>

NativeOne == <<<<1, 0>>, Fq2Zero, Fq2Zero, Fq2Zero, Fq2Zero, Fq2Zero>>
NativeZero == <<Fq2Zero, Fq2Zero, Fq2Zero, Fq2Zero, Fq2Zero, Fq2Zero>>

\* From<Fq12> for MyFq12: the 12 coefficients, c0 parts first, then c1 parts
ToMyFq12(x) ==
    <<x[1][1], x[2][1], x[3][1], x[4][1], x[5][1], x[6][1],
      x[1][2], x[2][2], x[3][2], x[4][2], x[5][2], x[6][2]>>
\* From<MyFq12> for Fq12
FromMyFq12(c) ==
    <<<<c[1], c[7]>>, <<c[2], c[8]>>, <<c[3], c[9]>>,
      <<c[4], c[10]>>, <<c[5], c[11]>>, <<c[6], c[12]>>>>

RECURSIVE NativePow(_, _)
\* Field::pow(&[e]): square-and-multiply over the bits of e, high bit first
NativePow(x, e) ==
    IF e = 0 THEN NativeOne
    ELSE LET h == NativePow(x, e \div 2)
             s == NativeMul(h, h)
         IN IF e % 2 = 1 THEN NativeMul(s, x) ELSE s

None == [some |-> FALSE]
Some(v) == [some |-> TRUE, val |-> v]

(***************************************************************************)
(* Field::inverse() of the library, computed down the tower                *)
(* Fq12 = Fq6[w] / (w^2 - v), Fq6 = Fq2[v] / (v^3 - Xi), v = w^2.          *)
(* An Fq6 is <<a0, a1, a2>> = a0 + a1 v + a2 v^2.                          *)
(***************************************************************************)
FqInv(x) == CHOOSE y \in 1..(Q - 1) : FqMul(x, y) = 1
Fq2Sub(x, y) == <<FqSub(x[1], y[1]), FqSub(x[2], y[2])>>
Fq2Neg(x) == <<FqNeg(x[1]), FqNeg(x[2])>>
Fq2Inv(x) ==
    LET n == FqInv(FqAdd(FqMul(x[1], x[1]), FqMul(x[2], x[2])))
    IN <<FqMul(x[1], n), FqMul(FqNeg(x[2]), n)>>

Fq6Sub(a, b) == <<Fq2Sub(a[1], b[1]), Fq2Sub(a[2], b[2]), Fq2Sub(a[3], b[3])>>
Fq6Neg(a) == <<Fq2Neg(a[1]), Fq2Neg(a[2]), Fq2Neg(a[3])>>
Fq6Mul(a, b) ==
    << Fq2Add(Fq2Mul(a[1], b[1]),
              Fq2Mul(Xi, Fq2Add(Fq2Mul(a[2], b[3]), Fq2Mul(a[3], b[2])))),
       Fq2Add(Fq2Add(Fq2Mul(a[1], b[2]), Fq2Mul(a[2], b[1])),
              Fq2Mul(Xi, Fq2Mul(a[3], b[3]))),
       Fq2Add(Fq2Add(Fq2Mul(a[1], b[3]), Fq2Mul(a[2], b[2])), Fq2Mul(a[3], b[1])) >>
\* multiplication by v
Fq6MulByV(a) == <<Fq2Mul(Xi, a[3]), a[1], a[2]>>
Fq6Inv(a) ==
    LET t0 == Fq2Sub(Fq2Mul(a[1], a[1]), Fq2Mul(Xi, Fq2Mul(a[2], a[3])))
        t1 == Fq2Sub(Fq2Mul(Xi, Fq2Mul(a[3], a[3])), Fq2Mul(a[1], a[2]))
        t2 == Fq2Sub(Fq2Mul(a[2], a[2]), Fq2Mul(a[1], a[3]))
        d == Fq2Inv(Fq2Add(Fq2Mul(a[1], t0),
                           Fq2Mul(Xi, Fq2Add(Fq2Mul(a[3], t1), Fq2Mul(a[2], t2)))))
    IN <<Fq2Mul(t0, d), Fq2Mul(t1, d), Fq2Mul(t2, d)>>

\* Field::inverse(): None for the additive identity, else the y with x * y = 1:
\* for x = A + B w, y = (A - B w) / (A^2 - v B^2)
NativeInverse(x) ==
    IF x = NativeZero THEN None
    ELSE LET A == <<x[1], x[3], x[5]>>
             B == <<x[2], x[4], x[6]>>
             n == Fq6Inv(Fq6Sub(Fq6Mul(A, A), Fq6MulByV(Fq6Mul(B, B))))
             c0 == Fq6Mul(A, n)
             c1 == Fq6Neg(Fq6Mul(B, n))
         IN Some(<<c0[1], c1[1], c0[2], c1[2], c0[3], c1[3]>>)

(***************************************************************************)
(* Wires (plonky2 Target) and base-field gadgets (FqTarget).               *)
(*   wire     <<"v", n>>     virtual target n                              *)
(*            <<"c", x>>     constant target holding native value x        *)
(*            <<"w", t, l>>  limb l of the output of arithmetic node t     *)
(*   FqTarget <<"const", x>> | <<"limbs", 8 wires>> | <<"add", a, b>> |    *)
(*            <<"sub", a, b>> | <<"neg", a>> | <<"mul", a, b>> |           *)
(*            <<"select", flag wire, a, b>>                                *)
(***************************************************************************)
RECURSIVE Pow(_, _)
Pow(b, n) == IF n = 0 THEN 1 ELSE b * Pow(b, n - 1)

\* limb l (1-based) of the unsigned integer x
Limb(x, l) == (x \div Pow(LimbBase, l - 1)) % LimbBase

RECURSIVE LimbSum(_, _)
\* sum of digits[i] * LimbBase^(i-1)
LimbSum(digits, n) ==
    IF n = 0 THEN 0 ELSE LimbSum(digits, n - 1) + digits[n] * Pow(LimbBase, n - 1)

VirtualTarget(n) == <<"v", n>>
ConstantTarget(x) == <<"c", x>>

\* F::from_canonical_u64 of a release build followed by to_canonical_u64: the
\* field element n stands for
from_canonical_u64(n) == n % NativeOrder

FqT_constant(x) == <<"const", x>>
\* FqTarget::empty: NumLimbs fresh virtual targets, the first being number n
FqT_empty(n) == <<"limbs", [l \in 1..NumLimbs |-> VirtualTarget(n + l - 1)]>>
FqT_add(a, b) == <<"add", a, b>>
FqT_sub(a, b) == <<"sub", a, b>>
FqT_neg(a) == <<"neg", a>>
FqT_mul(a, b) == <<"mul", a, b>>
\* FqTarget::select(builder, a, b, flag): a when flag is set, else b
FqT_select(a, b, flag) == <<"select", flag, a, b>>

\* FqTarget::to_vec: the limb wires, low limb first
FqT_to_vec(t) ==
    IF t[1] = "limbs" THEN t[2]
    ELSE IF t[1] = "const" THEN [l \in 1..NumLimbs |-> ConstantTarget(Limb(t[2], l))]
    ELSE [l \in 1..NumLimbs |-> <<"w", t, l>>]

\* FqTarget::from_vec: the gadget over exactly these limb wires
FqT_from_vec(input) == <<"limbs", input>>

RECURSIVE FqT_value(_, _)
RECURSIVE WireValue(_, _)
\* Witness::get_target
WireValue(w, pw) ==
    IF w[1] = "v" THEN pw[w]
    ELSE IF w[1] = "c" THEN w[2]
    ELSE Limb(FqT_value(w[2], pw), w[3])

\* the integer an FqTarget holds under the witness pw
FqT_value(t, pw) ==
    CASE t[1] = "const"  -> t[2]
      [] t[1] = "limbs"  -> LimbSum([l \in 1..NumLimbs |-> WireValue(t[2][l], pw)], NumLimbs)
      [] t[1] = "add"    -> FqAdd(FqT_value(t[2], pw), FqT_value(t[3], pw))
      [] t[1] = "sub"    -> FqSub(FqT_value(t[2], pw), FqT_value(t[3], pw))
      [] t[1] = "neg"    -> FqNeg(FqT_value(t[2], pw))
      [] t[1] = "mul"    -> FqMul(FqT_value(t[2], pw), FqT_value(t[3], pw))
      [] t[1] = "select" -> IF WireValue(t[2], pw) = 1
                            THEN FqT_value(t[3], pw) ELSE FqT_value(t[4], pw)

RECURSIVE FqT_leaves(_)
\* the virtual and constant wires an FqTarget's value is computed from
FqT_leaves(t) ==
    CASE t[1] = "const"  -> {}
      [] t[1] = "limbs"  -> UNION {IF t[2][l][1] = "w" THEN FqT_leaves(t[2][l][2])
                                   ELSE {t[2][l]} : l \in 1..NumLimbs}
      [] t[1] = "neg"    -> FqT_leaves(t[2])
      [] t[1] = "select" -> {t[2]} \cup FqT_leaves(t[3]) \cup FqT_leaves(t[4])
      [] OTHER           -> FqT_leaves(t[2]) \cup FqT_leaves(t[3])

\* Witness::contains for one wire
WireSet(w, pw) ==
    IF w[1] = "v" THEN w \in DOMAIN pw
    ELSE IF w[1] = "c" THEN TRUE
    ELSE \A v \in FqT_leaves(w[2]) : v[1] = "c" \/ v \in DOMAIN pw

(***************************************************************************)
(* Fq12Target: a sequence of NumCoeffs FqTargets                           *)
(***************************************************************************)
\* Fq12Target::empty, the builder having allocated n virtual targets so far
empty(n) == [k \in 1..NumCoeffs |-> FqT_empty(n + (k - 1) * NumLimbs)]

\* Fq12Target::constant
constant(c) == LET my == ToMyFq12(c) IN [k \in 1..NumCoeffs |-> FqT_constant(my[k])]

\* Fq12Target::select
select(a, b, flag) == [k \in 1..NumCoeffs |-> FqT_select(a[k], b[k], flag)]

RECURSIVE MulLoop(_, _, _, _)
\* for i in 0..6 { for j in 0..6 { ... } } of mul, at pass n = 6 * i + j:
\* acc holds a0b0_coeffs, a0b1_coeffs, a1b0_coeffs, a1b1_coeffs
MulLoop(acc, a, b, n) ==
    IF n = Half * Half THEN acc
    ELSE LET i == n \div Half
             j == n % Half
             coeff00 == FqT_mul(a[i + 1], b[j + 1])
             coeff01 == FqT_mul(a[i + 1], b[j + Half + 1])
             coeff10 == FqT_mul(a[i + Half + 1], b[j + 1])
             coeff11 == FqT_mul(a[i + Half + 1], b[j + Half + 1])
         IN IF i + j < Len(acc.a0b0)
            THEN MulLoop([a0b0 |-> [acc.a0b0 EXCEPT ![i + j + 1] = FqT_add(@, coeff00)],
                          a0b1 |-> [acc.a0b1 EXCEPT ![i + j + 1] = FqT_add(@, coeff01)],
                          a1b0 |-> [acc.a1b0 EXCEPT ![i + j + 1] = FqT_add(@, coeff10)],
                          a1b1 |-> [acc.a1b1 EXCEPT ![i + j + 1] = FqT_add(@, coeff11)]],
                         a, b, n + 1)
            ELSE MulLoop([a0b0 |-> Append(acc.a0b0, coeff00),
                          a0b1 |-> Append(acc.a0b1, coeff01),
                          a1b0 |-> Append(acc.a1b0, coeff10),
                          a1b1 |-> Append(acc.a1b1, coeff11)],
                         a, b, n + 1)

\* MulOutLow with term2 added instead of negated
MulOutLow_unsigned(d, s, i) ==
    IF i < Half - 1
    THEN LET term0 == d[i + 1]
             term1 == FqT_mul(d[i + Half + 1], FqT_constant(9 % Q))
             term2 == s[i + Half + 1]
         IN FqT_add(FqT_add(term0, term1), term2)
    ELSE d[i + 1]

\* out_coeffs[i] for i in 0..6 (first loop), i 0-based
MulOutLow(d, s, i) ==
    IF i < Half - 1
    THEN LET term0 == d[i + 1]
             term1 == FqT_mul(d[i + Half + 1], FqT_constant(9 % Q))
             term2 == FqT_neg(s[i + Half + 1])
         IN FqT_add(FqT_add(term0, term1), term2)
    ELSE d[i + 1]

\* out_coeffs[i + 6] for i in 0..6 (second loop), i 0-based
MulOutHigh(d, s, i) ==
    IF i < Half - 1
    THEN LET term0 == s[i + 1]
             term1 == d[i + Half + 1]
             term2 == FqT_mul(s[i + Half + 1], FqT_constant(9 % Q))
         IN FqT_add(FqT_add(term0, term1), term2)
    ELSE s[i + 1]

\* Fq12Target::mul
mul(a, b) ==
    LET p == MulLoop([a0b0 |-> <<>>, a0b1 |-> <<>>, a1b0 |-> <<>>, a1b1 |-> <<>>], a, b, 0)
        a0b0_minus_a1b1 == [i \in 1..(2 * Half - 1) |-> FqT_sub(p.a0b0[i], p.a1b1[i])]
        a0b1_plus_a1b0 == [i \in 1..(2 * Half - 1) |-> FqT_add(p.a0b1[i], p.a1b0[i])]
    IN [k \in 1..NumCoeffs |->
          IF k <= Half THEN MulOutLow(a0b0_minus_a1b1, a0b1_plus_a1b0, k - 1)
          ELSE MulOutHigh(a0b0_minus_a1b1, a0b1_plus_a1b0, k - 1 - Half)]

\* conjugate negating the positions 0, 2, .. instead of 1, 3, ..
conjugate_shifted(x) == [k \in 1..NumCoeffs |->
                            IF k \in {1, 3, 5, 7, 9, 11} THEN FqT_neg(x[k]) ELSE x[k]]

\* Fq12Target::conjugate
conjugate(x) == [k \in 1..NumCoeffs |->
                    IF k - 1 \in {1, 3, 5, 7, 9, 11} THEN FqT_neg(x[k]) ELSE x[k]]

\* conditional_mul with the two branches of select exchanged
conditional_mul_swapped(self, x, flag) == select(self, mul(self, x), flag)

\* Fq12Target::conditional_mul
conditional_mul(self, x, flag) == select(mul(self, x), self, flag)

\* Fq12Target::to_vec: coeffs.iter().flat_map(|c| c.to_vec())
to_vec(x) ==
    FqT_to_vec(x[1]) \o FqT_to_vec(x[2]) \o FqT_to_vec(x[3]) \o FqT_to_vec(x[4]) \o
    FqT_to_vec(x[5]) \o FqT_to_vec(x[6]) \o FqT_to_vec(x[7]) \o FqT_to_vec(x[8]) \o
    FqT_to_vec(x[9]) \o FqT_to_vec(x[10]) \o FqT_to_vec(x[11]) \o FqT_to_vec(x[12])

\* the values of the 12 coefficients of a gadget under pw
Values12(x, pw) == [k \in 1..NumCoeffs |-> FqT_value(x[k], pw)]


Range(f) == {f[i] : i \in DOMAIN f}

\* connect: one connect_nonnative per coefficient, as pairs <<lhs, rhs>>
connect(lhs, rhs) == [i \in 1..NumCoeffs |-> <<lhs[i], rhs[i]>>]

\* the limbs of the unsigned integer v, low limb first
LimbsOf(v) == [l \in 1..NumLimbs |-> Limb(v, l)]

\* the values of the limb wires of FqTarget t under pw
LimbValues(t, pw) ==
    IF t[1] = "limbs" THEN [l \in 1..NumLimbs |-> WireValue(t[2][l], pw)]
    ELSE LimbsOf(FqT_value(t, pw))

\* connect_nonnative holds under pw: the two gadgets agree limb by limb
ConnectHolds(c, pw) == LimbValues(c[1], pw) = LimbValues(c[2], pw)

(***************************************************************************)
(* utils.rs                                                                *)
(***************************************************************************)
\* limb.view_bits::<Lsb0>(): the LimbBits bits of a limb, low bit first
ViewBits(limb) == [i \in 1..LimbBits |-> (limb \div Pow(2, i - 1)) % 2 = 1]

RECURSIVE Flatten(_)
Flatten(ss) == IF Len(ss) = 0 THEN <<>> ELSE Head(ss) \o Flatten(Tail(ss))

RECURSIVE ByteOf(_, _)
\* the inner loop of bits_to_biguint: limb |= 1 << i for every set bit i
ByteOf(chunk, n) ==
    IF n = 0 THEN 0
    ELSE ByteOf(chunk, n - 1) + (IF chunk[n] THEN Pow(2, n - 1) ELSE 0)

RECURSIVE FromBytesLe(_, _)
\* BigUint::from_bytes_le
FromBytesLe(bytes, n) ==
    IF n = 0 THEN 0
    ELSE FromBytesLe(bytes, n - 1) + bytes[n] * Pow(Pow(2, ByteBits), n - 1)

\* bits_to_biguint
bits_to_biguint(bits) ==
    LET nchunks == (Len(bits) + ByteBits - 1) \div ByteBits
        chunk(c) == SubSeq(bits, (c - 1) * ByteBits + 1,
                           IF c * ByteBits < Len(bits) THEN c * ByteBits ELSE Len(bits))
        limbs == [c \in 1..nchunks |-> ByteOf(chunk(c), Len(chunk(c)))]
    IN FromBytesLe(limbs, nchunks)

\* u32_digits_to_biguint
u32_digits_to_biguint(inputs) ==
    bits_to_biguint(Flatten([i \in 1..Len(inputs) |-> ViewBits(inputs[i])]))

Panic == [panic |-> TRUE]
Return(v) == [panic |-> FALSE, val |-> v]
\* get_u256_biguint: to_canonical_u64() as u32 keeps the low limb of each value
get_u256_biguint(pw, x) ==
    IF ~(Len(x) <= NumLimbs) THEN Panic
    ELSE Return(u32_digits_to_biguint([i \in 1..Len(x) |-> WireValue(x[i], pw) % LimbBase]))

\* WitnessBigUint::get_biguint_target
get_biguint_target(pw, t) ==
    LimbSum([l \in 1..NumLimbs |-> WireValue(FqT_to_vec(t)[l], pw)], NumLimbs)

\* from_biguint_to_fq, and Fq: From<BigUint>
from_biguint_to_fq(n) == n % Q

(***************************************************************************)
(* Hint generators                                                         *)
(***************************************************************************)
InverseGenerator(x, inv) == [id |-> "Fq12InverseGenerator", x |-> x, inv |-> inv]
ExpGenerator(x, offset, exp_val, output) ==
    [id |-> "Fq12ExpGenerator", x |-> x, offset |-> offset,
     exp_val |-> exp_val, output |-> output]

\* Fq12InverseGenerator::dependencies
Inv_dependencies(g) == Range(to_vec(g.x))

\* Fq12ExpGenerator::dependencies
Exp_dependencies(g) == Range(to_vec(g.x))

\* the wires Fq12InverseGenerator::run_once reads from the witness
Inv_reads(g) == Range(to_vec(g.x))

\* the wires Fq12ExpGenerator::run_once reads from the witness
Exp_reads(g) == Range(to_vec(g.x)) \cup Range(to_vec(g.offset)) \cup {g.exp_val}

\* the wires a generator writes: the limbs of its output gadget
OutputWires(g) ==
    IF g.id = "Fq12InverseGenerator" THEN Range(to_vec(g.inv)) ELSE Range(to_vec(g.output))

RECURSIVE SetLimbs(_, _, _)
\* set_biguint_target / FqTarget::set_witness: the first n limb wires of
\* FqTarget t receive the limbs of the integer value
SetLimbs(t, value, n) ==
    IF n = 0 THEN <<>>
    ELSE (FqT_to_vec(t)[n] :> Limb(value, n)) @@ SetLimbs(t, value, n - 1)

RECURSIVE SetCoeffsUpTo(_, _, _)
SetCoeffsUpTo(t, my, k) ==
    IF k = 0 THEN <<>>
    ELSE SetLimbs(t[k], my[k], NumLimbs) @@ SetCoeffsUpTo(t, my, k - 1)

\* for i in 0..12: the limb wires of coefficient i of gadget t receive the
\* limbs of my[i]
SetCoeffs(t, my) == SetCoeffsUpTo(t, my, NumCoeffs)

\* Fq12Target::set_witness
set_witness(t, value) == SetCoeffs(t, ToMyFq12(value))

NoWrites == <<>>

\* Inv_run_once with inverse().unwrap_or_default(): zero is written for x = 0
Inv_run_once_default(g, pw) ==
    IF \E w \in Inv_reads(g) : ~WireSet(w, pw)
    THEN [panic |-> "unset target", out |-> NoWrites]
    ELSE LET coeffs == [k \in 1..NumCoeffs |->
                           from_biguint_to_fq(get_biguint_target(pw, g.x[k]))]
             x == FromMyFq12(coeffs)
             inv_x == NativeInverse(x)
         IN [panic |-> "",
             out |-> SetCoeffs(g.inv, ToMyFq12(IF inv_x.some THEN inv_x.val ELSE NativeZero))]

\* Fq12InverseGenerator::run_once: [panic, out], out the buffer of writes
Inv_run_once(g, pw) ==
    IF \E w \in Inv_reads(g) : ~WireSet(w, pw)
    THEN [panic |-> "unset target", out |-> NoWrites]
    ELSE LET coeffs == [k \in 1..NumCoeffs |->
                           from_biguint_to_fq(get_biguint_target(pw, g.x[k]))]
             x == FromMyFq12(coeffs)
             inv_x == NativeInverse(x)
         IN IF ~inv_x.some
            THEN [panic |-> "unwrap on None", out |-> NoWrites]
            ELSE [panic |-> "", out |-> SetCoeffs(g.inv, ToMyFq12(inv_x.val))]

\* Exp_run_once with output = x.pow(&[exp_val]), the offset left out
Exp_run_once_no_offset(g, pw) ==
    IF \E w \in Exp_reads(g) : ~WireSet(w, pw)
    THEN [panic |-> "unset target", out |-> NoWrites]
    ELSE LET xs == [k \in 1..NumCoeffs |-> get_u256_biguint(pw, FqT_to_vec(g.x[k]))]
         IN IF \E k \in 1..NumCoeffs : xs[k].panic
            THEN [panic |-> "assert", out |-> NoWrites]
            ELSE LET x_coeffs == [k \in 1..NumCoeffs |-> from_biguint_to_fq(xs[k].val)]
                     x == FromMyFq12(x_coeffs)
                     exp_val == WireValue(g.exp_val, pw)
                     output == NativePow(x, exp_val)
                 IN [panic |-> "", out |-> set_witness(g.output, output)]

\* Fq12ExpGenerator::run_once
Exp_run_once(g, pw) ==
    IF \E w \in Exp_reads(g) : ~WireSet(w, pw)
    THEN [panic |-> "unset target", out |-> NoWrites]
    ELSE LET xs == [k \in 1..NumCoeffs |-> get_u256_biguint(pw, FqT_to_vec(g.x[k]))]
             os == [k \in 1..NumCoeffs |-> get_u256_biguint(pw, FqT_to_vec(g.offset[k]))]
         IN IF \E k \in 1..NumCoeffs : xs[k].panic \/ os[k].panic
            THEN [panic |-> "assert", out |-> NoWrites]
            ELSE LET x_coeffs == [k \in 1..NumCoeffs |-> from_biguint_to_fq(xs[k].val)]
                     x == FromMyFq12(x_coeffs)
                     offset_coeffs == [k \in 1..NumCoeffs |-> from_biguint_to_fq(os[k].val)]
                     offset == FromMyFq12(offset_coeffs)
                     exp_val == WireValue(g.exp_val, pw)
                     output == NativeMul(offset, NativePow(x, exp_val))
                 IN [panic |-> "", out |-> set_witness(g.output, output)]

(***************************************************************************)
(* Persistence.  A stream is a sequence of wire references.                *)
(***************************************************************************)
IoError == [ok |-> FALSE]

\* FqTarget::serialize: the limb wire references
FqT_serialize(t) == FqT_to_vec(t)

\* FqTarget::deserialize
FqT_deserialize(src) ==
    IF Len(src) < NumLimbs THEN IoError
    ELSE [ok |-> TRUE, val |-> FqT_from_vec(SubSeq(src, 1, NumLimbs)),
          rest |-> SubSeq(src, NumLimbs + 1, Len(src))]

\* Buffer::read_target
read_target(src) ==
    IF Len(src) < 1 THEN IoError
    ELSE [ok |-> TRUE, val |-> src[1], rest |-> Tail(src)]

\* Fq12Target::serialize
serialize(x) == Flatten([k \in 1..NumCoeffs |-> FqT_serialize(x[k])])

RECURSIVE DeserializeCoeffs(_, _)
\* the map/collect of Fq12Target::deserialize: n more coefficients from src
DeserializeCoeffs(src, n) ==
    IF n = 0 THEN [ok |-> TRUE, val |-> <<>>, rest |-> src]
    ELSE LET c == FqT_deserialize(src)
         IN IF ~c.ok THEN IoError
            ELSE LET r == DeserializeCoeffs(c.rest, n - 1)
                 IN IF ~r.ok THEN IoError
                    ELSE [ok |-> TRUE, val |-> <<c.val>> \o r.val, rest |-> r.rest]

\* Fq12Target::deserialize
deserialize(src) == DeserializeCoeffs(src, NumCoeffs)

\* Fq12InverseGenerator::serialize
Inv_serialize(g) == serialize(g.x) \o serialize(g.inv)

\* Fq12InverseGenerator::deserialize
Inv_deserialize(src) ==
    LET x == deserialize(src)
    IN IF ~x.ok THEN IoError
       ELSE LET inv == deserialize(x.rest)
            IN IF ~inv.ok THEN IoError
               ELSE [ok |-> TRUE, val |-> InverseGenerator(x.val, inv.val),
                     rest |-> inv.rest]

\* Fq12ExpGenerator::serialize
Exp_serialize(g) ==
    serialize(g.x) \o serialize(g.offset) \o serialize(g.output) \o <<g.exp_val>>

\* Exp_deserialize reading the fields in declaration order: x, offset,
\* exp_val, output
Exp_deserialize_declared(src) ==
    LET x == deserialize(src)
    IN IF ~x.ok THEN IoError
       ELSE LET offset == deserialize(x.rest)
            IN IF ~offset.ok THEN IoError
               ELSE LET exp_val == read_target(offset.rest)
                    IN IF ~exp_val.ok THEN IoError
                       ELSE LET output == deserialize(exp_val.rest)
                            IN IF ~output.ok THEN IoError
                               ELSE [ok |-> TRUE,
                                     val |-> ExpGenerator(x.val, offset.val,
                                                          exp_val.val, output.val),
                                     rest |-> output.rest]

\* Fq12ExpGenerator::deserialize
Exp_deserialize(src) ==
    LET x == deserialize(src)
    IN IF ~x.ok THEN IoError
       ELSE LET offset == deserialize(x.rest)
            IN IF ~offset.ok THEN IoError
               ELSE LET output == deserialize(offset.rest)
                    IN IF ~output.ok THEN IoError
                       ELSE LET exp_val == read_target(output.rest)
                            IN IF ~exp_val.ok THEN IoError
                               ELSE [ok |-> TRUE,
                                     val |-> ExpGenerator(x.val, offset.val,
                                                          exp_val.val, output.val),
                                     rest |-> exp_val.rest]

\* from_vec without the assert_eq on the length: chunks(num_limbs) leaves a
\* short last chunk, and try_into().unwrap() aborts unless there are 12 chunks
from_vec_unchecked(input) ==
    IF (Len(input) + NumLimbs - 1) \div NumLimbs # NumCoeffs THEN Panic
    ELSE Return([k \in 1..NumCoeffs |->
                    FqT_from_vec(SubSeq(input, (k - 1) * NumLimbs + 1,
                                        IF k * NumLimbs < Len(input)
                                        THEN k * NumLimbs ELSE Len(input)))])

\* Fq12Target::from_vec
from_vec(input) ==
    IF Len(input) # NumCoeffs * NumLimbs THEN Panic
    ELSE Return([k \in 1..NumCoeffs |->
                    FqT_from_vec(SubSeq(input, (k - 1) * NumLimbs + 1, k * NumLimbs))])

(***************************************************************************)
(* Inputs of the driver                                                    *)
(***************************************************************************)
Unit(k) == [i \in 1..NumCoeffs |-> IF i = k THEN 1 ELSE 0]
Dense1 == <<1, 2, 3, 4, 5, 6, 0, 1, 2, 3, 4, 5>>
Dense2 == <<6, 5, 3, 0, 0, 1, 2, 2, 4, 0, 1, 3>>
\* the tower-field values the driver draws from: zero, the twelve basis
\* elements (one among them) and two dense elements
Fq12Values ==
    {FromMyFq12(c) : c \in {Unit(k) : k \in 0..NumCoeffs} \cup {Dense1, Dense2}}
\* zero, one, u, w and a dense element
FewValues == {FromMyFq12(c) : c \in {Unit(0), Unit(1), Unit(7), Unit(2), Dense1}}
\* one, u and a dense element
PowValues == {FromMyFq12(c) : c \in {Unit(1), Unit(7), Dense1}}
\* the u64 exponents the driver uses: the small ones, the largest below the
\* native order, the native order and the largest u64
ExpValues == (0..MaxExp) \cup {NativeOrder - 1, NativeOrder, Pow(2, U64Bits) - 1}

(***************************************************************************)
(* State                                                                   *)
(***************************************************************************)
VARIABLES
    plan,         \* the operation the driver exercises
    phase,        \* "build", "connected", "witness", "proved", "rejected",
                  \* "abort", "persist"
    failure,      \* why the phase is "abort"
    ts,           \* the operand gadgets the driver has created
    natives,      \* for each operand: its native value if a constant, else None
    op,           \* the operation applied to the operands
    res,          \* the gadget the operation returned, <<>> before
    aux,          \* the exponent wire of pow, the flag wire of conditional_mul
    exp,          \* the u64 the driver placed on the exponent wire, -1 before
    num_virtual,  \* builder: virtual targets allocated
    generators,   \* builder: registered hint generators
    connects,     \* builder: copy constraints, pairs of FqTargets
    pw,           \* partition witness: assigned virtual wires
    ran,          \* generators whose run_once was invoked
    forged,       \* generators whose output the prover assigned itself
    dst,          \* persistence: the stream
    stored,       \* persistence: what was serialized
    loaded        \* persistence: what deserialize returned, <<>> before

vars == <<plan, phase, failure, ts, natives, op, res, aux, exp, num_virtual, generators,
          connects, pw, ran, forged, dst, stored, loaded>>

builderVars == <<num_virtual, generators, connects>>
witnessVars == <<pw, ran, forged>>
persistVars == <<dst, stored, loaded>>

NoWire == <<"none">>
EmptyWitness == [w \in {} |-> 0]

Plans == {"mul", "inv", "pow", "conjugate", "conditional_mul", "from_vec"}

\* the values the driver draws constant operands and forged outputs from:
\* every value for the operations of one operand and for mul
InputValues ==
    CASE plan = "pow" -> PowValues
      [] plan = "conditional_mul" -> FewValues
      [] OTHER -> Fq12Values

Init ==
    /\ plan \in Plans
    /\ phase = "build"
    /\ failure = ""
    /\ ts = <<>>
    /\ natives = <<>>
    /\ op = "none"
    /\ res = <<>>
    /\ aux = NoWire
    /\ exp = -1
    /\ num_virtual = 0
    /\ generators = <<>>
    /\ connects = <<>>
    /\ pw = EmptyWitness
    /\ ran = {}
    /\ forged = {}
    /\ dst = <<>>
    /\ stored = [kind |-> "none"]
    /\ loaded = <<>>

(***************************************************************************)
(* Circuit construction                                                    *)
(***************************************************************************)
\* the gadgets an operation takes
Operands(o) == IF o \in {"mul", "pow", "conditional_mul"} THEN 2 ELSE 1

\* let t = Fq12Target::constant(&mut builder, c)
Constant(c) ==
    /\ phase = "build" /\ op = "none" /\ Len(ts) < Operands(plan)
    /\ c \in InputValues
    /\ ts' = Append(ts, constant(c))
    /\ natives' = Append(natives, Some(c))
    /\ UNCHANGED <<plan, phase, failure, op, res, aux, exp, builderVars, witnessVars, persistVars>>

\* let t = Fq12Target::empty(&mut builder)
Empty ==
    /\ phase = "build" /\ op = "none" /\ Len(ts) < Operands(plan)
    /\ ts' = Append(ts, empty(num_virtual))
    /\ natives' = Append(natives, None)
    /\ num_virtual' = num_virtual + NumCoeffs * NumLimbs
    /\ UNCHANGED <<plan, phase, failure, op, res, aux, exp, generators, connects,
                   witnessVars, persistVars>>

\* ts[1].mul(&mut builder, &ts[2])
Mul ==
    /\ phase = "build" /\ op = "none" /\ plan = "mul" /\ Len(ts) = 2
    /\ op' = "mul"
    /\ res' = mul(ts[1], ts[2])
    /\ UNCHANGED <<plan, phase, failure, ts, natives, aux, exp, builderVars, witnessVars, persistVars>>

\* inv without the closing connect
inv_unconstrained(self, n) ==
    LET inv_t == empty(n)
    IN [out |-> inv_t,
        allocated |-> NumCoeffs * NumLimbs,
        generators |-> <<InverseGenerator(self, inv_t)>>,
        connects |-> <<>>]

\* Fq12Target::inv, the builder having allocated n virtual targets: the
\* returned gadget and what the builder gains
inv(self, n) ==
    LET inv_t == empty(n)
        one == constant(NativeOne)
        x_mul_inv == mul(self, inv_t)
    IN [out |-> inv_t,
        allocated |-> NumCoeffs * NumLimbs,
        generators |-> <<InverseGenerator(self, inv_t)>>,
        connects |-> connect(x_mul_inv, one)]

\* pow with a constraint tying the output to x
pow_constrained(self, offset, exp_val, n) ==
    LET pow_t == empty(n)
    IN [out |-> pow_t,
        allocated |-> NumCoeffs * NumLimbs,
        generators |-> <<ExpGenerator(self, offset, exp_val, pow_t)>>,
        connects |-> connect(pow_t, mul(offset, self))]

\* Fq12Target::pow, the builder having allocated n virtual targets
pow(self, offset, exp_val, n) ==
    LET pow_t == empty(n)
    IN [out |-> pow_t,
        allocated |-> NumCoeffs * NumLimbs,
        generators |-> <<ExpGenerator(self, offset, exp_val, pow_t)>>,
        connects |-> <<>>]

\* ts[1].inv(&mut builder)
Inv ==
    /\ phase = "build" /\ op = "none" /\ plan = "inv" /\ Len(ts) = 1
    /\ LET r == inv(ts[1], num_virtual)
       IN /\ num_virtual' = num_virtual + r.allocated
          /\ generators' = generators \o r.generators
          /\ connects' = connects \o r.connects
          /\ res' = r.out
    /\ op' = "inv"
    /\ UNCHANGED <<plan, phase, failure, ts, natives, aux, exp, witnessVars, persistVars>>

\* ts[1].pow(&mut builder, &ts[2], exp_val), the exponent wire taking
\* `fresh` virtual targets of its own
PowWith(exp_val, fresh) ==
    /\ phase = "build" /\ op = "none" /\ plan = "pow" /\ Len(ts) = 2
    /\ LET r == pow(ts[1], ts[2], exp_val, num_virtual + fresh)
       IN /\ num_virtual' = num_virtual + fresh + r.allocated
          /\ generators' = generators \o r.generators
          /\ connects' = connects \o r.connects
          /\ res' = r.out
    /\ op' = "pow"
    /\ aux' = exp_val
    /\ UNCHANGED <<plan, phase, failure, ts, natives, witnessVars, persistVars>>

\* pow with the exponent on a constant wire,
\* builder.constant(F::from_canonical_u64(exp))
PowConstant ==
    \E e \in ExpValues :
        /\ PowWith(ConstantTarget(from_canonical_u64(e)), 0)
        /\ exp' = e

\* pow with the exponent on a fresh virtual wire
PowVirtual ==
    /\ PowWith(VirtualTarget(num_virtual), 1)
    /\ exp' = exp

\* F::from_canonical_u64(exp) of a debug build: debug_assert!(n < ORDER)
\* fails, when the constant exponent wire is made or when the witness of
\* the virtual exponent wire is set
FromCanonicalAbort ==
    /\ plan = "pow"
    /\ \/ phase = "build" /\ op = "none" /\ Len(ts) = 2
       \/ phase = "witness" /\ aux[1] = "v" /\ aux \notin DOMAIN pw
    /\ \E e \in ExpValues :
          /\ ~(e < NativeOrder)
          /\ exp' = e
    /\ phase' = "abort"
    /\ failure' = "debug_assert"
    /\ UNCHANGED <<plan, ts, natives, op, res, aux, builderVars, witnessVars, persistVars>>

\* ts[1].conjugate(&mut builder)
Conjugate ==
    /\ phase = "build" /\ op = "none" /\ plan = "conjugate" /\ Len(ts) = 1
    /\ op' = "conjugate"
    /\ res' = conjugate(ts[1])
    /\ UNCHANGED <<plan, phase, failure, ts, natives, aux, exp, builderVars, witnessVars, persistVars>>

\* ts[1].conditional_mul(&mut builder, &ts[2], &flag), flag a constant
ConditionalMulConstant ==
    /\ phase = "build" /\ op = "none" /\ plan = "conditional_mul" /\ Len(ts) = 2
    /\ \E f \in {0, 1} :
          /\ aux' = ConstantTarget(f)
          /\ res' = conditional_mul(ts[1], ts[2], ConstantTarget(f))
    /\ op' = "conditional_mul"
    /\ UNCHANGED <<plan, phase, failure, ts, natives, exp, builderVars, witnessVars,
                   persistVars>>

\* conditional_mul with the flag on a fresh virtual wire
ConditionalMulVirtual ==
    /\ phase = "build" /\ op = "none" /\ plan = "conditional_mul" /\ Len(ts) = 2
    /\ aux' = VirtualTarget(num_virtual)
    /\ res' = conditional_mul(ts[1], ts[2], VirtualTarget(num_virtual))
    /\ num_virtual' = num_virtual + 1
    /\ op' = "conditional_mul"
    /\ UNCHANGED <<plan, phase, failure, ts, natives, exp, generators, connects,
                   witnessVars, persistVars>>

\* the wire sequences the driver hands to from_vec: the flat form of ts[1],
\* the same cut by one wire, extended by one wire, and the empty sequence
FlatInputs(t) ==
    LET v == to_vec(t)
    IN {v, SubSeq(v, 1, Len(v) - 1), Append(v, v[1]), <<>>}

\* Fq12Target::from_vec(&mut builder, &input)
FromVec ==
    /\ phase = "build" /\ op = "none" /\ plan = "from_vec" /\ Len(ts) = 1
    /\ \E input \in FlatInputs(ts[1]) :
          LET r == from_vec(input)
          IN /\ aux' = <<"input", Len(input)>>
             /\ IF r.panic
                   THEN /\ phase' = "abort" /\ failure' = "assert_eq"
                        /\ res' = res
                   ELSE /\ res' = r.val
                        /\ UNCHANGED <<phase, failure>>
    /\ op' = "from_vec"
    /\ UNCHANGED <<plan, ts, natives, exp, builderVars, witnessVars, persistVars>>


(***************************************************************************)
(* The tests' closing connect of the result to the natively computed one   *)
(***************************************************************************)
Constants(n) == Len(natives) = n /\ \A i \in 1..n : natives[i].some

\* test_fq12_mul_circuit: connect(c_expected_t, c_t)
ConnectMulExpected ==
    /\ phase = "build" /\ op = "mul" /\ Constants(2)
    /\ connects' = connects \o
          connect(constant(NativeMul(natives[1].val, natives[2].val)), res)
    /\ phase' = "connected"
    /\ UNCHANGED <<plan, failure, ts, natives, op, res, aux, exp, num_virtual, generators,
                   witnessVars, persistVars>>

\* test_fq12_inv_circuit: connect(inv_x_t, inv_x_expected_t)
ConnectInvExpected ==
    /\ phase = "build" /\ op = "inv" /\ Constants(1)
    /\ NativeInverse(natives[1].val).some
    /\ connects' = connects \o
          connect(res, constant(NativeInverse(natives[1].val).val))
    /\ phase' = "connected"
    /\ UNCHANGED <<plan, failure, ts, natives, op, res, aux, exp, num_virtual, generators,
                   witnessVars, persistVars>>

\* test_fq12_pow_circuit: offset = ONE, pow_expected = x.pow([exp]),
\* connect(pow_x_t, pow_x_expected_t)
ConnectPowExpected ==
    /\ phase = "build" /\ op = "pow" /\ Constants(2)
    /\ natives[2].val = NativeOne /\ aux[1] = "c"
    /\ connects' = connects \o
          connect(res, constant(NativePow(natives[1].val, exp)))
    /\ phase' = "connected"
    /\ UNCHANGED <<plan, failure, ts, natives, op, res, aux, exp, num_virtual, generators,
                   witnessVars, persistVars>>

\* test_from_to_vec: connect(a_t, restored_a_t)
ConnectRestored ==
    /\ phase = "build" /\ op = "from_vec" /\ Constants(1)
    /\ connects' = connects \o connect(ts[1], res)
    /\ phase' = "connected"
    /\ UNCHANGED <<plan, failure, ts, natives, op, res, aux, exp, num_virtual, generators,
                   witnessVars, persistVars>>

\* builder.build(): witness generation starts
Build ==
    /\ phase \in {"build", "connected"} /\ op # "none"
    /\ phase' = "witness"
    /\ UNCHANGED <<plan, failure, ts, natives, op, res, aux, exp, builderVars, witnessVars, persistVars>>

(***************************************************************************)
(* Witness generation                                                      *)
(***************************************************************************)
AllVirtual == {VirtualTarget(n) : n \in 0..(num_virtual - 1)}

\* the witness gains the value of input gadget ts[i]
SetOperand ==
    /\ phase = "witness"
    /\ \E i \in 1..Len(ts), v \in FewValues :
          /\ ~natives[i].some
          /\ Range(to_vec(ts[i])) \cap DOMAIN pw = {}
          /\ pw' = set_witness(ts[i], v) @@ pw
    /\ UNCHANGED <<plan, phase, failure, ts, natives, op, res, aux, exp, builderVars,
                   ran, forged, persistVars>>

\* pw.set_target on the limb wires of input gadget ts[i] of pow, which
\* Fq12Target::empty leaves free: the lowest limb wire of coefficient 0 gains
\* a native value that is no u32, the other limb wires the limbs of zero
SetOperandRaw ==
    /\ phase = "witness" /\ plan = "pow"
    /\ \E i \in 1..Len(ts), n \in LimbBase..(NativeOrder - 1) :
          /\ ~natives[i].some
          /\ Range(to_vec(ts[i])) \cap DOMAIN pw = {}
          /\ pw' = (to_vec(ts[i])[1] :> n) @@ set_witness(ts[i], NativeZero) @@ pw
    /\ UNCHANGED <<plan, phase, failure, ts, natives, op, res, aux, exp, builderVars,
                   ran, forged, persistVars>>

\* the witness gains the value of the exponent wire,
\* pw.set_target(exp_val, F::from_canonical_u64(exp)), or of the flag wire
SetAux ==
    /\ phase = "witness"
    /\ aux[1] = "v" /\ aux \notin DOMAIN pw
    /\ IF op = "pow"
       THEN \E e \in ExpValues :
               /\ pw' = (aux :> from_canonical_u64(e)) @@ pw
               /\ exp' = e
       ELSE \E n \in {0, 1} :
               /\ pw' = (aux :> n) @@ pw
               /\ exp' = exp
    /\ UNCHANGED <<plan, phase, failure, ts, natives, op, res, aux, builderVars,
                   ran, forged, persistVars>>

\* SimpleGenerator::run, the generator not yet run: run_once is invoked as
\* soon as the witness contains every wire of dependencies()
RunGenerator(i, deps, r) ==
    /\ phase = "witness"
    /\ i \notin ran \cup forged
    /\ \A w \in deps : WireSet(w, pw)
    /\ ran' = ran \cup {i}
    /\ IF r.panic # ""
       THEN /\ phase' = "abort" /\ failure' = r.panic /\ pw' = pw
       ELSE /\ pw' = r.out @@ pw /\ UNCHANGED <<phase, failure>>
    /\ UNCHANGED <<plan, ts, natives, op, res, aux, exp, builderVars, forged, persistVars>>

RunInverse ==
    \E i \in 1..Len(generators) :
        /\ generators[i].id = "Fq12InverseGenerator"
        /\ RunGenerator(i, Inv_dependencies(generators[i]), Inv_run_once(generators[i], pw))

RunExp ==
    \E i \in 1..Len(generators) :
        /\ generators[i].id = "Fq12ExpGenerator"
        /\ RunGenerator(i, Exp_dependencies(generators[i]), Exp_run_once(generators[i], pw))

\* the values a prover assigns to a hint's output: any for inv, whose output
\* the constraints decide; one and a dense element for pow
ForgedValues ==
    IF plan = "pow" THEN {FromMyFq12(c) : c \in {Unit(1), Dense1}} ELSE InputValues

\* a prover that does not run hint i assigns its output wires itself
Forge ==
    /\ phase = "witness"
    /\ \E i \in 1..Len(generators), v \in ForgedValues :
          /\ i \notin ran \cup forged
          /\ forged' = forged \cup {i}
          /\ pw' = SetCoeffs(IF generators[i].id = "Fq12InverseGenerator"
                             THEN generators[i].inv ELSE generators[i].output,
                             ToMyFq12(v)) @@ pw
    /\ UNCHANGED <<plan, phase, failure, ts, natives, op, res, aux, exp, builderVars, ran, persistVars>>

Satisfied == \A n \in 1..Len(connects) : ConnectHolds(connects[n], pw)

\* data.prove(pw): every wire is assigned; the constraints are checked
Prove ==
    /\ phase = "witness"
    /\ DOMAIN pw = AllVirtual
    /\ phase' = IF Satisfied THEN "proved" ELSE "rejected"
    /\ UNCHANGED <<plan, failure, ts, natives, op, res, aux, exp, builderVars, witnessVars, persistVars>>

(***************************************************************************)
(* Persistence of the built structure                                      *)
(***************************************************************************)
\* the operations whose gadgets the driver persists: between them they hold
\* gadgets of constants, of virtual limbs and of arithmetic nodes
PersistPlans == {"inv", "conjugate", "from_vec"}

\* g.serialize(&mut dst, common_data) for a gadget g of the driver
SerializeTarget ==
    /\ phase = "build" /\ op # "none" /\ plan \in PersistPlans
    /\ \E g \in Range(ts) \cup (IF res = <<>> THEN {} ELSE {res}) :
          /\ dst' = serialize(g)
          /\ stored' = [kind |-> "Fq12Target", val |-> g, cut |-> FALSE]
    /\ phase' = "persist"
    /\ UNCHANGED <<plan, failure, ts, natives, op, res, aux, exp, builderVars, witnessVars, loaded>>

\* generator.serialize(&mut dst, common_data) for a registered hint
SerializeGenerator ==
    /\ phase = "build"
    /\ \E i \in 1..Len(generators) :
          LET g == generators[i]
          IN /\ dst' = IF g.id = "Fq12InverseGenerator"
                       THEN Inv_serialize(g) ELSE Exp_serialize(g)
             /\ stored' = [kind |-> g.id, val |-> g, cut |-> FALSE]
    /\ phase' = "persist"
    /\ UNCHANGED <<plan, failure, ts, natives, op, res, aux, exp, builderVars, witnessVars, loaded>>

\* the lengths a stream of length n is cut to
CutPoints(n) == {0, NumLimbs, n - NumLimbs, n - 1} \cap 0..(n - 1)

\* the stored stream loses its tail
Truncate ==
    /\ phase = "persist" /\ loaded = <<>> /\ ~stored.cut
    /\ \E n \in CutPoints(Len(dst)) : dst' = SubSeq(dst, 1, n)
    /\ stored' = [stored EXCEPT !.cut = TRUE]
    /\ UNCHANGED <<plan, phase, failure, ts, natives, op, res, aux, exp, builderVars, witnessVars, loaded>>

\* deserialize(&mut src, common_data) of what was stored
Deserialize ==
    /\ phase = "persist" /\ loaded = <<>>
    /\ loaded' = << CASE stored.kind = "Fq12Target" -> deserialize(dst)
                      [] stored.kind = "Fq12InverseGenerator" -> Inv_deserialize(dst)
                      [] stored.kind = "Fq12ExpGenerator" -> Exp_deserialize(dst) >>
    /\ UNCHANGED <<plan, phase, failure, ts, natives, op, res, aux, exp, builderVars, witnessVars,
                   dst, stored>>

Next ==
    \/ \E c \in Fq12Values : Constant(c)
    \/ Empty
    \/ Mul
    \/ Inv
    \/ PowConstant
    \/ PowVirtual
    \/ FromCanonicalAbort
    \/ Conjugate
    \/ ConditionalMulConstant
    \/ ConditionalMulVirtual
    \/ FromVec
    \/ ConnectMulExpected
    \/ ConnectInvExpected
    \/ ConnectPowExpected
    \/ ConnectRestored
    \/ Build
    \/ SetOperand
    \/ SetOperandRaw
    \/ SetAux
    \/ RunInverse
    \/ RunExp
    \/ Forge
    \/ Prove
    \/ SerializeTarget
    \/ SerializeGenerator
    \/ Truncate
    \/ Deserialize

Spec == Init /\ [][Next]_vars

(***************************************************************************)
(* Properties                                                              *)
(***************************************************************************)
\* every limb wire of gadget t has a value under the witness
Assigned(t) == \A w \in Range(to_vec(t)) : WireSet(w, pw)

\* the native tower-field value gadget t holds under the witness
ValueOf(t) == FromMyFq12(Values12(t, pw))

\* the generator's reads and declared dependencies, by kind
Reads(g) == IF g.id = "Fq12InverseGenerator" THEN Inv_reads(g) ELSE Exp_reads(g)
Dependencies(g) ==
    IF g.id = "Fq12InverseGenerator" THEN Inv_dependencies(g) ELSE Exp_dependencies(g)

RECURSIVE ConvSum(_, _, _, _)
\* sum of f[i] * g[k - i] over the i in from..5 with 0 <= k - i <= 5 (0-based)
ConvSum(f, g, k, from) ==
    IF from > Half - 1 THEN 0
    ELSE (IF 0 <= k - from /\ k - from <= Half - 1
          THEN f[from + 1] * g[k - from + 1] ELSE 0) + ConvSum(f, g, k, from + 1)

\* the product of two 12-coefficient values by the schoolbook formula:
\* d = a0b0 - a1b1, s = a0b1 + a1b0, out[i] = d[i] + 9 d[i+6] - s[i+6],
\* out[i+6] = s[i] + d[i+6] + 9 s[i+6] for i in 0..4, out[5] = d[5],
\* out[11] = s[5]
SchoolbookProduct(a, b) ==
    LET a0 == SubSeq(a, 1, Half)
        a1 == SubSeq(a, Half + 1, NumCoeffs)
        b0 == SubSeq(b, 1, Half)
        b1 == SubSeq(b, Half + 1, NumCoeffs)
        d(k) == ConvSum(a0, b0, k, 0) - ConvSum(a1, b1, k, 0)
        s(k) == ConvSum(a0, b1, k, 0) + ConvSum(a1, b0, k, 0)
    IN [n \in 1..NumCoeffs |->
          LET i == (n - 1) % Half
          IN IF n <= Half
             THEN (IF i < Half - 1 THEN d(i) + 9 * d(i + Half) - s(i + Half) ELSE d(i)) % Q
             ELSE (IF i < Half - 1 THEN s(i) + d(i + Half) + 9 * s(i + Half) ELSE s(i)) % Q]

RECURSIVE IteratedProduct(_, _)
\* x * x * ... * x, e factors
IteratedProduct(x, e) ==
    IF e = 0 THEN NativeOne
    ELSE LET r == IteratedProduct(x, e - 1)
         IN IF r = NativeZero THEN NativeZero ELSE NativeMul(x, r)

\* C1: once both operands of mul hold values, the 12 coefficients of the
\* result are those of the native product, which are those of the schoolbook
\* formula with its asymmetric positions 5 and 11; and the circuit that
\* connects mul(constant(a), constant(b)) to constant(a*b) is satisfied.
C1_MulIsNativeProduct ==
    (op = "mul" /\ phase # "persist" /\ Assigned(ts[1]) /\ Assigned(ts[2])) =>
        LET a == Values12(ts[1], pw)
            b == Values12(ts[2], pw)
            out == Values12(res, pw)
        IN /\ Len(res) = NumCoeffs
           /\ out = ToMyFq12(NativeMul(FromMyFq12(a), FromMyFq12(b)))
           /\ out = SchoolbookProduct(a, b)
           /\ (phase \in {"proved", "rejected"}) => phase = "proved"

C1_Witness ==
    /\ op = "mul" /\ phase = "proved" /\ Len(connects) = NumCoeffs
    /\ natives[1] = Some(FromMyFq12(Dense1))
    /\ natives[2] = Some(FromMyFq12(Dense2))

\* C2: inv registers one inverse hint over (x, output) and adds the 12
\* equalities x * output = 1; every witness the constraints accept has output
\* the inverse of x; and a witness whose output the hint wrote is accepted.
C2_InvBindsInverse ==
    (op = "inv") =>
        /\ Len(generators) = 1
        /\ generators[1] = InverseGenerator(ts[1], res)
        /\ Len(connects) >= NumCoeffs
        /\ (phase = "build") =>
              connects = connect(mul(ts[1], res), constant(NativeOne))
        /\ (phase = "proved") =>
              /\ NativeMul(ValueOf(ts[1]), ValueOf(res)) = NativeOne
              /\ NativeInverse(ValueOf(ts[1])) = Some(ValueOf(res))
        /\ (1 \in ran /\ phase \in {"witness", "proved", "rejected"}) =>
              /\ Satisfied
              /\ phase # "rejected"

C2_Witness ==
    /\ op = "inv" /\ phase = "proved" /\ 1 \in ran
    /\ Len(connects) = 2 * NumCoeffs
    /\ natives[1] = Some(FromMyFq12(Dense1))

\* C3: an inverse hint that ran on x = 0 has aborted witness generation with
\* the failed unwrap and has written none of its output wires, and no
\* witness with x = 0 is ever accepted.
C3_InvOfZeroAborts ==
    /\ \A i \in ran :
          (generators[i].id = "Fq12InverseGenerator"
             /\ ValueOf(generators[i].x) = NativeZero) =>
              /\ phase = "abort"
              /\ failure = "unwrap on None"
              /\ \A w \in OutputWires(generators[i]) : w \notin DOMAIN pw
    /\ (op = "inv" /\ phase = "proved") => ValueOf(ts[1]) # NativeZero

C3_Witness ==
    /\ op = "inv" /\ phase = "abort" /\ failure = "unwrap on None"
    /\ ran = {1}
    /\ Values12(ts[1], pw) = Unit(0)

\* the limb wires of gadget t hold u32 values, as set_witness and constant
\* leave them
LimbsInRange(t) == \A w \in Range(to_vec(t)) : WireValue(w, pw) < LimbBase

C5_PowStep ==
    (op = "none" /\ op' = "pow") =>
        /\ connects' = connects
        /\ Len(generators') = Len(generators) + 1
        /\ generators'[Len(generators')] = ExpGenerator(ts[1], ts[2], aux', res')
        /\ Len(res') = NumCoeffs
        /\ Range(to_vec(res')) =
              {VirtualTarget(n) :
                  n \in (num_virtual' - NumCoeffs * NumLimbs)..(num_virtual' - 1)}
        /\ num_virtual' - num_virtual \in
              {NumCoeffs * NumLimbs, NumCoeffs * NumLimbs + 1}

\* a completed witness of a circuit holding pow alone is accepted
C5_PowUnbound ==
    (op = "pow" /\ Len(connects) = 0 /\ phase \in {"proved", "rejected"}) =>
        phase = "proved"

\* C5: pow leaves the constraints as they are, allocating only the 96 wires
\* of its 12 output coefficients and registering one exponentiation hint;
\* so the constraints accept a witness whatever its output value.
C5_PowAddsNoConstraint == [][C5_PowStep]_vars /\ []C5_PowUnbound

C5_Witness ==
    /\ op = "pow" /\ phase = "proved" /\ forged = {1}
    /\ ValueOf(res) #
          NativeMul(ValueOf(ts[2]), IteratedProduct(ValueOf(ts[1]), WireValue(aux, pw)))

\* C6: every wire a registered hint reads is a constant or one of its
\* declared dependencies, and no hint run has met an unassigned wire.
C6_ReadsWithinDependencies ==
    /\ \A i \in 1..Len(generators) :
          \A w \in Reads(generators[i]) :
              w[1] = "c" \/ w \in Dependencies(generators[i])
    /\ failure # "unset target"

\* what deserialize returned carries the same wires as what was serialized
SameGadget(a, b) == Len(a) = NumCoeffs /\ Len(b) = NumCoeffs /\ to_vec(a) = to_vec(b)

\* C7: deserialize of an intact stream returns what was serialized, gadget by
\* gadget and the exponent wire last, and consumes the stream; deserialize
\* of a stream that lost its tail returns a decoding error.
C7_SerializeRoundTrips ==
    (phase = "persist" /\ loaded # <<>>) =>
        IF stored.cut THEN ~loaded[1].ok
        ELSE /\ loaded[1].ok
             /\ loaded[1].rest = <<>>
             /\ CASE stored.kind = "Fq12Target" ->
                       /\ SameGadget(loaded[1].val, stored.val)
                       /\ dst = to_vec(stored.val)
                  [] stored.kind = "Fq12InverseGenerator" ->
                       /\ loaded[1].val.id = stored.val.id
                       /\ SameGadget(loaded[1].val.x, stored.val.x)
                       /\ SameGadget(loaded[1].val.inv, stored.val.inv)
                       /\ dst = to_vec(stored.val.x) \o to_vec(stored.val.inv)
                  [] stored.kind = "Fq12ExpGenerator" ->
                       /\ loaded[1].val.id = stored.val.id
                       /\ SameGadget(loaded[1].val.x, stored.val.x)
                       /\ SameGadget(loaded[1].val.offset, stored.val.offset)
                       /\ SameGadget(loaded[1].val.output, stored.val.output)
                       /\ loaded[1].val.exp_val = stored.val.exp_val
                       /\ dst = to_vec(stored.val.x) \o to_vec(stored.val.offset)
                                   \o to_vec(stored.val.output) \o <<stored.val.exp_val>>

C7_Witness ==
    /\ phase = "persist" /\ loaded # <<>>
    /\ stored.kind = "Fq12ExpGenerator" /\ ~stored.cut
    /\ loaded[1].ok
    /\ stored.val.exp_val[1] = "v"
    /\ natives[1] = Some(FromMyFq12(Dense1))

\* C8: to_vec of a gadget is its 96 limb wires in coefficient order; from_vec
\* of them is a gadget with the same 12 coefficients; from_vec of a sequence
\* of any other length aborts and returns no gadget.
C8_FlattenRoundTrip ==
    /\ (plan = "from_vec" /\ Len(ts) = 1) =>
          LET flat == to_vec(ts[1])
          IN /\ Len(flat) = NumCoeffs * NumLimbs
             /\ \A k \in 1..NumCoeffs :
                   SubSeq(flat, (k - 1) * NumLimbs + 1, k * NumLimbs) = FqT_to_vec(ts[1][k])
    /\ (op = "from_vec") =>
          /\ (aux[2] # NumCoeffs * NumLimbs) <=> (phase = "abort")
          /\ (phase = "abort") => (failure = "assert_eq" /\ res = <<>>)
          /\ (phase # "abort") =>
                /\ Len(res) = NumCoeffs
                /\ \A k \in 1..NumCoeffs : FqT_to_vec(res[k]) = FqT_to_vec(ts[1][k])
                /\ Assigned(ts[1]) => Values12(res, pw) = Values12(ts[1], pw)
                /\ (phase \in {"proved", "rejected"}) => phase = "proved"

C8_Witness ==
    /\ op = "from_vec" /\ phase = "proved" /\ Len(connects) = NumCoeffs
    /\ natives[1] = Some(FromMyFq12(Dense2))

\* C9: once the operands and the flag hold values, conditional_mul holds the
\* coefficients of mul(self, x), the native product, under a set flag and
\* the coefficients of self under a cleared flag.
C9_ConditionalMulSelects ==
    (op = "conditional_mul" /\ phase # "persist"
        /\ Assigned(ts[1]) /\ Assigned(ts[2]) /\ WireSet(aux, pw)) =>
        IF WireValue(aux, pw) = 1
        THEN /\ Values12(res, pw) = Values12(mul(ts[1], ts[2]), pw)
             /\ ValueOf(res) = NativeMul(ValueOf(ts[1]), ValueOf(ts[2]))
        ELSE Values12(res, pw) = Values12(ts[1], pw)

C9_Witness ==
    /\ op = "conditional_mul" /\ phase = "proved"
    /\ aux[1] = "v" /\ WireValue(aux, pw) = 0
    /\ ValueOf(ts[1]) = FromMyFq12(Dense1)
    /\ ValueOf(ts[2]) = FromMyFq12(Unit(2))
    /\ ValueOf(res) = FromMyFq12(Dense1)

\* C10: conjugate holds -x[i] at the odd positions 1, 3, 5, 7, 9, 11 and the
\* very coefficient gadget x[i] at the even positions, and the input gadget
\* is the one the driver created.
C10_ConjugateNegatesOdd ==
    (op = "conjugate") =>
        /\ ts[1] = IF natives[1].some THEN constant(natives[1].val) ELSE empty(0)
        /\ Len(res) = NumCoeffs
        /\ \A k \in 1..NumCoeffs : ((k - 1) % 2 = 0) => res[k] = ts[1][k]
        /\ Assigned(ts[1]) =>
              \A k \in 1..NumCoeffs :
                  FqT_value(res[k], pw) =
                      IF (k - 1) % 2 = 1
                      THEN FqNeg(FqT_value(ts[1][k], pw))
                      ELSE FqT_value(ts[1][k], pw)

C10_Witness ==
    /\ op = "conjugate" /\ phase = "proved"
    /\ ~natives[1].some
    /\ Values12(ts[1], pw) = Dense1
    /\ Values12(res, pw) = <<1, 5, 3, 3, 5, 1, 0, 6, 2, 4, 4, 2>>

\* C11: get_u256_biguint aborts on more than 8 wires, and the coefficients
\* an exponentiation hint that has run read from x and offset through it are
\* the integers their limb wires encode, the sum of v_i * 2^(32 i) over the
\* values v_i on the wires, whatever native values the wires hold.
C11_ReadsEncodedInteger ==
    \A i \in ran :
        (generators[i].id = "Fq12ExpGenerator" /\ phase # "abort") =>
            \A k \in 1..NumCoeffs :
                \A t \in {generators[i].x[k], generators[i].offset[k]} :
                    LET wires == FqT_to_vec(t)
                    IN /\ get_u256_biguint(pw, Append(wires, wires[1])).panic
                       /\ get_u256_biguint(pw, wires) =
                             Return(LimbSum([l \in 1..Len(wires) |->
                                                WireValue(wires[l], pw)], Len(wires)))

====
